---- MODULE Spec2Model ----
(***************************************************************************)
(* Model of src/src/Math.h (namespace math): the generic Vec<T,size>, the  *)
(* fixed-arity Vec2/Vec3/Vec4, Segment2 and the free functions Sqr, Avg,   *)
(* DistanceSq and Distance; the small matrix, which Math.h only declares,  *)
(* follows the specification.                                              *)
(*                                                                         *)
(* Numbers.  Every element value is an exact rational [n, d] in lowest     *)
(* terms (d > 0).  A value of an integer element type has d = 1 and lies   *)
(* in the range of the type; arithmetic of an integer type wraps modulo    *)
(* 2^Bits(type).  A value of a floating type is the exact rational (the    *)
(* sample values are small dyadic rationals, for which IEEE +, -, * are    *)
(* exact).  A square root is kept symbolically as its radicand.            *)
(*                                                                         *)
(* Widths are scaled down: int has IntBits bits, uint8_t has a quarter of  *)
(* that (sizeof ratio 1:4 as in the program), int64 twice as many.         *)
(***************************************************************************)
EXTENDS Integers, Sequences, FiniteSets, TLC

VARIABLES self, call, ret, steps

vars == <<self, call, ret, steps>>

(***************************************************************************)
(* Bounds of the model                                                     *)
(***************************************************************************)
IntBits == 8
MaxLen == 4
MaxSteps == 2

(***************************************************************************)
(* Element types                                                           *)
(***************************************************************************)
ElemTypes == {"uint8", "int", "int64", "float", "double"}

IsFloating(t) == t \in {"float", "double"}

IsSigned(t) == t \in {"int", "int64"}

Bits(t) == CASE t = "uint8" -> IntBits \div 4
             [] t = "int"   -> IntBits
             [] t = "int64" -> 2 * IntBits
             [] OTHER       -> 0

RECURSIVE Pow2(_)
Pow2(k) == IF k = 0 THEN 1 ELSE 2 * Pow2(k - 1)

MinOf(t) == IF IsSigned(t) THEN 0 - Pow2(Bits(t) - 1) ELSE 0

MaxOf(t) == IF IsSigned(t) THEN Pow2(Bits(t) - 1) - 1 ELSE Pow2(Bits(t)) - 1

\* conversion of an integer to the integer type t (modulo 2^Bits(t))
Wrap(t, k) == IF IsSigned(t)
              THEN ((k + Pow2(Bits(t) - 1)) % Pow2(Bits(t))) - Pow2(Bits(t) - 1)
              ELSE k % Pow2(Bits(t))

(***************************************************************************)
(* Exact rationals                                                         *)
(***************************************************************************)
Abs(k) == IF k < 0 THEN 0 - k ELSE k

RECURSIVE GCD(_, _)
GCD(a, b) == IF b = 0 THEN a ELSE GCD(b, a % b)

Rat(num, den) ==
    LET s == IF den < 0 THEN 0 - 1 ELSE 1
        g == GCD(Abs(num), Abs(den))
    IN  [n |-> (s * num) \div g, d |-> (s * den) \div g]

I(k) == [n |-> k, d |-> 1]

RAdd(p, q) == Rat(p.n * q.d + q.n * p.d, p.d * q.d)
RSub(p, q) == Rat(p.n * q.d - q.n * p.d, p.d * q.d)
RMul(p, q) == Rat(p.n * q.n, p.d * q.d)
RDiv(p, q) == Rat(p.n * q.d, p.d * q.n)
RNeg(p)    == [n |-> 0 - p.n, d |-> p.d]
RLess(p, q) == p.n * q.d < q.n * p.d
RAbs(p)    == [n |-> Abs(p.n), d |-> p.d]

\* integer division of C++ (rounds towards zero)
TruncDiv(a, b) == LET q == Abs(a) \div Abs(b)
                  IN  IF (a < 0) = (b < 0) THEN q ELSE 0 - q

\* the integral part of a rational (rounds towards zero)
Trunc(p) == TruncDiv(p.n, p.d)

(***************************************************************************)
(* static_cast and the built-in arithmetic of C++                          *)
(***************************************************************************)
\* static_cast<to>(v) of a value v of type from: a floating value loses its
\* fraction on the way to an integer type, an integer is reduced modulo
\* 2^Bits(to).  (A floating value outside the range of the integer type is
\* undefined in C++; the sample values stay inside the range of int.)
Cast(from, to, v) ==
    IF IsFloating(to) THEN v ELSE I(Wrap(to, Trunc(v)))

\* the usual arithmetic conversions: the type in which  x op y  is evaluated
CommonType(T, C) ==
    CASE "double" \in {T, C} -> "double"
      [] "float"  \in {T, C} -> "float"
      [] "int64"  \in {T, C} -> "int64"
      [] OTHER               -> "int"

\* x op y  for x of type T and y of type C; the value has type CommonType(T, C)
Arith(opr, T, x, C, y) ==
    LET ct == CommonType(T, C)
        a  == Cast(T, ct, x)
        b  == Cast(C, ct, y)
    IN  IF IsFloating(ct)
        THEN CASE opr = "+" -> RAdd(a, b)
               [] opr = "-" -> RSub(a, b)
               [] opr = "*" -> RMul(a, b)
               [] opr = "/" -> RDiv(a, b)
        ELSE CASE opr = "+" -> I(Wrap(ct, a.n + b.n))
               [] opr = "-" -> I(Wrap(ct, a.n - b.n))
               [] opr = "*" -> I(Wrap(ct, a.n * b.n))
               [] opr = "/" -> I(Wrap(ct, TruncDiv(a.n, b.n)))

\* x op y  converted to the type R (initialisation of an R, or  x op= y)
ArithTo(R, opr, T, x, C, y) == Cast(CommonType(T, C), R, Arith(opr, T, x, C, y))

\* -x  for x of type T, converted to R
NegTo(R, T, x) ==
    LET pt == CommonType(T, T)
        a  == Cast(T, pt, x)
    IN  Cast(pt, R, IF IsFloating(pt) THEN RNeg(a) ELSE I(Wrap(pt, 0 - a.n)))

(***************************************************************************)
(* Vectors.  A vector object is [kind, type, elems]: kind "Vec" is the     *)
(* generic Vec<T,size> (elems is the std::array), kinds "Vec2", "Vec3",    *)
(* "Vec4" are the fixed-arity structs (elems is <<x, y>>, <<x, y, z>>,     *)
(* <<x, y, z, w>>).                                                        *)
(***************************************************************************)
MkVec(k, t, es) == [kind |-> k, type |-> t, elems |-> es]

Size(v) == Len(v.elems)

KindOfSize(n) == CASE n = 2 -> "Vec2" [] n = 3 -> "Vec3" [] n = 4 -> "Vec4"

FixedKinds == {"Vec2", "Vec3", "Vec4"}

\* helper::CopyCastArray: dest[i] = static_cast<NT>(src[i]) for every i
CopyCastArray(T, NT, src) == [i \in 1..Len(src) |-> Cast(T, NT, src[i])]

\* Vec::operator Vec<NT, size>()
Vec_Convert(v, NT) == MkVec("Vec", NT, CopyCastArray(v.type, NT, v.elems))

\* Vec::operator+, -, *, / (const C& rhs): the vector is cast to C first,
\* then every element is updated with  e op= rhs  in C
Vec_ScalarOp(opr, v, C, rhs) ==
    LET out == Vec_Convert(v, C)
    IN  MkVec("Vec", C, [i \in 1..Size(v) |-> ArithTo(C, opr, C, out.elems[i], C, rhs)])

\* Vec::operator-()
Vec_Neg(v) ==
    MkVec("Vec", v.type, [i \in 1..Size(v) |-> NegTo(v.type, v.type, v.elems[i])])

\* a mixed-length add that pads the shorter operand's missing elements with zero
\* results instead of carrying the longer operand's elements
Vec_AddWrongTail(v, rhs) ==
    LET T == v.type
        C == rhs.type
        n == IF Size(rhs) > Size(v) THEN Size(rhs) ELSE Size(v)
    IN  MkVec("Vec", C,
          [i \in 1..n |->
             IF i <= Size(v) /\ i <= Size(rhs)
             THEN ArithTo(C, "+", C, Cast(C, C, rhs.elems[i]), T, v.elems[i])
             ELSE I(0)])

\* Vec::operator+(const Vec<C, size2>& rhs)
Vec_Add(v, rhs) ==
    LET T == v.type
        C == rhs.type
    IN  IF Size(rhs) > Size(v)
        THEN LET out == CopyCastArray(C, C, rhs.elems)
             IN  MkVec("Vec", C,
                   [i \in 1..Size(rhs) |->
                      IF i <= Size(v)
                      THEN ArithTo(C, "+", C, out[i], T, v.elems[i])
                      ELSE out[i]])
        ELSE LET out == CopyCastArray(T, C, v.elems)
             IN  MkVec("Vec", C,
                   [i \in 1..Size(v) |->
                      IF i <= Size(rhs)
                      THEN ArithTo(C, "+", C, out[i], C, rhs.elems[i])
                      ELSE out[i]])

\* Vec2/Vec3/Vec4 friend operator+, -, *, / (const VecN<T>& lhs, const C& rhs):
\* VecN<C>(lhs.x op rhs, ...)
VecN_ScalarOp(opr, v, C, rhs) ==
    MkVec(v.kind, C, [i \in 1..Size(v) |-> ArithTo(C, opr, v.type, v.elems[i], C, rhs)])

\* Vec2/Vec3/Vec4 friend operator+, -, *, / (const VecN<T>& lhs, const VecN<C>& rhs)
VecN_VecOp(opr, l, r) ==
    MkVec(l.kind, r.type,
          [i \in 1..Size(l) |-> ArithTo(r.type, opr, l.type, l.elems[i], r.type, r.elems[i])])

\* Vec2/Vec3/Vec4 friend operator-(const VecN<T> vec): VecN<T>(-vec.x, ...)
VecN_Neg(v) ==
    MkVec(v.kind, v.type, [i \in 1..Size(v) |-> NegTo(v.type, v.type, v.elems[i])])

X(v) == v.elems[1]
Y(v) == v.elems[2]

\* Vec2::operator Vec2<NT>(): Vec2<NT>{(NT)x, (NT)y}
Vec2_Convert(v, NT) == MkVec("Vec2", NT, <<Cast(v.type, NT, X(v)), Cast(v.type, NT, Y(v))>>)

\* Vec3::operator Vec3<NT>() and Vec4::operator Vec4<NT>() are written
\* VecN<NT>{(NT)x, (NT)y}: the initialiser list holds x and y only, and
\* Vec3 and Vec4 declare constructors of 0, 1, 3 (4) arguments and a copy
\* constructor, none of which takes two arguments, so the conversion has no
\* result (the operator is ill-formed once it is instantiated); inits are
\* the initialisers it supplies
VecN_Convert(v, NT) ==
    IF v.kind = "Vec2"
    THEN Vec2_Convert(v, NT)
    ELSE [tag |-> "ill_formed", kind |-> v.kind, type |-> NT,
          inits |-> <<Cast(v.type, NT, X(v)), Cast(v.type, NT, Y(v))>>]

\* x * x + y * y (+ z * z + w * w), evaluated left to right in the promoted
\* element type
RECURSIVE SumSq(_, _, _)
SumSq(T, es, k) ==
    LET pt == CommonType(T, T)
        sq == Arith("*", T, es[k], T, es[k])
    IN  IF k = 1 THEN sq ELSE Arith("+", pt, SumSq(T, es, k - 1), pt, sq)

\* Vec2/Vec3/Vec4::MagSq: the sum of the squares, converted to double on return
VecN_MagSq(v) == Cast(CommonType(v.type, v.type), "double", SumSq(v.type, v.elems, Size(v)))

\* std::sqrt of a double r, kept symbolically (NaN for a negative r)
NaN == [nan |-> TRUE]

Sqrt(r) == IF r.n < 0 THEN NaN ELSE [radicand |-> r]

\* x / m in double, m a square root: NaN when m is NaN, 0 when x is 0 (m is
\* not zero where this is used), else the symbolic quotient
DivSqrt(x, m) ==
    IF m = NaN THEN NaN
    ELSE IF x.n = 0 THEN I(0)
    ELSE [num |-> x, radicand |-> m.radicand]

\* Vec2/Vec3/Vec4::Mag
VecN_Mag(v) == Sqrt(VecN_MagSq(v))

\* mag == 0 for the double mag = Mag()
MagIsZero(m) == m # NaN /\ m.radicand.n = 0

\* Vec2/Vec3/Vec4::Normalize:
\*   double mag = Mag(); return (mag == 0) ? VecN<double>(x, ...) : *this / mag;
VecN_Normalize(v) ==
    LET mag == VecN_Mag(v)
    IN  IF MagIsZero(mag)
        THEN MkVec(v.kind, "double", [i \in 1..Size(v) |-> Cast(v.type, "double", v.elems[i])])
        ELSE MkVec(v.kind, "double",
                   [i \in 1..Size(v) |-> DivSqrt(Cast(v.type, "double", v.elems[i]), mag)])

\* Vec::Normalize is commented out in the generic Vec<T, size> (and its
\* condition is missing): the generic vector has no such member
Vec_Normalize(v) == [tag |-> "no_member"]

\* Vec2/Vec3/Vec4::operator==, !=, >, >=, <, <= (const VecN& v)
VecN_Eq(a, b) == \A i \in 1..Size(a) : a.elems[i] = b.elems[i]
VecN_Ne(a, b) == \E i \in 1..Size(a) : a.elems[i] # b.elems[i]
VecN_Gt(a, b) == RLess(VecN_MagSq(b), VecN_MagSq(a))
VecN_Ge(a, b) == ~RLess(VecN_MagSq(a), VecN_MagSq(b))

\* a lexicographic  <  on the elements
RECURSIVE LexLess(_, _, _)
LexLess(a, b, k) ==
    IF k > Len(a) THEN FALSE
    ELSE IF a[k] # b[k] THEN RLess(a[k], b[k])
    ELSE LexLess(a, b, k + 1)

VecN_LtLexicographic(a, b) == LexLess(a.elems, b.elems, 1)

VecN_Lt(a, b) == RLess(VecN_MagSq(a), VecN_MagSq(b))
VecN_Le(a, b) == ~RLess(VecN_MagSq(b), VecN_MagSq(a))

VecN_Compare(opr, a, b) ==
    CASE opr = "==" -> VecN_Eq(a, b)
      [] opr = "!=" -> VecN_Ne(a, b)
      [] opr = ">"  -> VecN_Gt(a, b)
      [] opr = ">=" -> VecN_Ge(a, b)
      [] opr = "<"  -> VecN_Lt(a, b)
      [] opr = "<=" -> VecN_Le(a, b)

\* a compound assignment that clamps to the range of the element type instead
\* of wrapping
Clamp(t, k) == IF k > MaxOf(t) THEN MaxOf(t) ELSE IF k < MinOf(t) THEN MinOf(t) ELSE k

VecN_AssignOpSaturating(opr, v, rhs) ==
    MkVec(v.kind, v.type,
          [i \in 1..Size(v) |->
             I(Clamp(v.type, IF opr = "+" THEN v.elems[i].n + rhs.elems[i].n
                                          ELSE v.elems[i].n - rhs.elems[i].n))])

\* Vec2/Vec3/Vec4::operator+=, -= (const VecN& v): x += v.x; y += v.y; ...
VecN_AssignOp(opr, v, rhs) ==
    MkVec(v.kind, v.type,
          [i \in 1..Size(v) |-> ArithTo(v.type, opr, v.type, v.elems[i], v.type, rhs.elems[i])])

\* an operator[] that reduces the index modulo the length
VecN_IndexWrapping(v, i) == [tag |-> "ref", pos |-> (i % Size(v)) + 1]

\* Vec2/Vec3/Vec4::operator[](size_t i): case 0: x, case 1: y, (case 2: z,
\* case 3: w), default: throw std::out_of_range
VecN_Index(v, i) ==
    IF i \in 0..(Size(v) - 1)
    THEN [tag |-> "ref", pos |-> i + 1]
    ELSE [tag |-> "out_of_range"]

(***************************************************************************)
(* Sample inputs                                                           *)
(***************************************************************************)
\* all sequences of length k over S
Seqs(S, k) == [1..k -> S]

GenTypes == {"uint8", "int", "double"}

GenElems(t) == CASE t = "int"    -> {I(0 - 1), I(MaxOf("int"))}
                 [] t = "uint8"  -> {I(1), I(MaxOf("uint8"))}
                 [] t = "double" -> {Rat(3, 2), I(0 - 2)}

GenericVecs(t) ==
    {MkVec("Vec", t, es) : es \in UNION {Seqs(GenElems(t), k) : k \in 1..MaxLen}}
    \cup (IF t = "int"
          THEN {MkVec("Vec", "int", <<I(1), I(2)>>),
                MkVec("Vec", "int", <<I(10), I(20), I(30), I(40)>>)}
          ELSE {})

AllGenericVecs == UNION {GenericVecs(t) : t \in GenTypes}

Scalars(t) == CASE t = "int"    -> {I(0 - 1), I(2)}
                [] t = "uint8"  -> {I(1)}
                [] t = "int64"  -> {I(3)}
                [] t = "float"  -> {Rat(1, 2)}
                [] t = "double" -> {Rat(1, 2), I(0 - 1)}

Operators == {"+", "-", "*", "/"}

NoCall == [op |-> "init"]
NoRet  == [tag |-> "none"]

\* the object has just been constructed: no call has been made on it yet
\* (the expressions are pure, so one expression per constructed object
\* covers every evaluation)
Fresh == call.op = "init"

(***************************************************************************)
(* Operations on the generic Vec<T, size>                                  *)
(***************************************************************************)
\* self + rhs, rhs a generic vector of any length and element type
VecAddVec ==
    /\ Fresh
    /\ self.kind = "Vec"
    /\ \E rhs \in AllGenericVecs :
         /\ call' = [op |-> "Vec+Vec", lhs |-> self, rhs |-> rhs]
         /\ ret'  = Vec_Add(self, rhs)
    /\ UNCHANGED <<self, steps>>

\* self op s, s a scalar of type C (the divisor of / is not zero)
VecScalar ==
    /\ Fresh
    /\ self.kind = "Vec"
    /\ \E opr \in Operators, C \in ElemTypes :
         \E s \in Scalars(C) :
            /\ call' = [op |-> "Vec.scalar", opr |-> opr, lhs |-> self,
                        rhs |-> [type |-> C, v |-> s]]
            /\ ret'  = Vec_ScalarOp(opr, self, C, s)
    /\ UNCHANGED <<self, steps>>

VecNegate ==
    /\ Fresh
    /\ self.kind = "Vec"
    /\ call' = [op |-> "-Vec", lhs |-> self]
    /\ ret'  = Vec_Neg(self)
    /\ UNCHANGED <<self, steps>>

\* a floating value converts to an integer type when its integral part is a
\* value of that type (the conversion is undefined otherwise)
InRange(T, NT, x) ==
    (IsFloating(T) /\ ~IsFloating(NT)) => (MinOf(NT) <= Trunc(x) /\ Trunc(x) <= MaxOf(NT))

Convertible(v, NT) ==
    /\ NT # v.type
    /\ \A i \in 1..Size(v) : InRange(v.type, NT, v.elems[i])

\* static_cast<Vec<NT, size>>(self)
VecConvert ==
    /\ Fresh
    /\ self.kind = "Vec"
    /\ \E NT \in ElemTypes :
         /\ Convertible(self, NT)
         /\ call' = [op |-> "convert", lhs |-> self, to |-> NT]
         /\ ret'  = Vec_Convert(self, NT)
    /\ UNCHANGED <<self, steps>>

(***************************************************************************)
(* Operations on Vec2, Vec3, Vec4                                          *)
(***************************************************************************)
Root == Pow2(IntBits \div 2)

FixElems(t, n) ==
    CASE t = "int"    -> CASE n = 2 -> {I(MinOf("int")), I(0 - 1), I(0), I(1), I(Root),
                                        I(MaxOf("int"))}
                           [] n = 3 -> {I(0 - 1), I(0), I(MaxOf("int"))}
                           [] OTHER -> {I(0), I(2)}
      [] t = "uint8"  -> IF n = 2 THEN {I(0), I(1), I(MaxOf("uint8"))}
                                  ELSE {I(0), I(MaxOf("uint8"))}
      [] t = "double" -> IF n = 2 THEN {I(0), Rat(3, 2), I(0 - 2)}
                                  ELSE {I(0), Rat(3, 2)}
      [] t = "float"  -> {Rat(5, 2), I(0 - 1)}
      [] t = "int64"  -> {I(3), I(0 - 1)}

FixedVecs(n, t) == {MkVec(KindOfSize(n), t, es) : es \in Seqs(FixElems(t, n), n)}

VecsOfKind(k) ==
    UNION {FixedVecs(n, t) : n \in {m \in 2..4 : KindOfSize(m) = k}, t \in ElemTypes}

AllFixedVecs == UNION {VecsOfKind(k) : k \in FixedKinds}

NonZero(es) == \A i \in 1..Len(es) : es[i].n # 0

\* self op rhs, rhs a vector of the same arity and of any element type
\* (the elements of the divisor of / are not zero)
VecNVec ==
    /\ Fresh
    /\ self.kind \in FixedKinds
    /\ \E opr \in Operators, rhs \in VecsOfKind(self.kind) :
         /\ opr = "/" => NonZero(rhs.elems)
         /\ call' = [op |-> "VecN.vec", opr |-> opr, lhs |-> self, rhs |-> rhs]
         /\ ret'  = VecN_VecOp(opr, self, rhs)
    /\ UNCHANGED <<self, steps>>

\* self op s, s a scalar of type C (the divisor of / is not zero)
VecNScalar ==
    /\ Fresh
    /\ self.kind \in FixedKinds
    /\ \E opr \in Operators, C \in ElemTypes :
         \E s \in Scalars(C) :
            /\ call' = [op |-> "VecN.scalar", opr |-> opr, lhs |-> self,
                        rhs |-> [type |-> C, v |-> s]]
            /\ ret'  = VecN_ScalarOp(opr, self, C, s)
    /\ UNCHANGED <<self, steps>>

VecNNegate ==
    /\ Fresh
    /\ self.kind \in FixedKinds
    /\ call' = [op |-> "-VecN", lhs |-> self]
    /\ ret'  = VecN_Neg(self)
    /\ UNCHANGED <<self, steps>>

Comparisons == {"==", "!=", ">", ">=", "<", "<="}

\* self cmp rhs, rhs a vector of the same struct and element type
VecNCompare ==
    /\ Fresh
    /\ self.kind \in FixedKinds
    /\ \E opr \in Comparisons, rhs \in FixedVecs(Size(self), self.type) :
         /\ call' = [op |-> "VecN.cmp", opr |-> opr, lhs |-> self, rhs |-> rhs]
         /\ ret'  = [tag |-> "bool", v |-> VecN_Compare(opr, self, rhs)]
    /\ UNCHANGED <<self, steps>>

\* static_cast<VecN<NT>>(self)
VecNConvert ==
    /\ Fresh
    /\ self.kind \in FixedKinds
    /\ \E NT \in ElemTypes :
         /\ Convertible(self, NT)
         /\ call' = [op |-> "convert", lhs |-> self, to |-> NT]
         /\ ret'  = VecN_Convert(self, NT)
    /\ UNCHANGED <<self, steps>>

\* self.MagSq() and self.Mag()
VecNMagSq ==
    /\ Fresh
    /\ self.kind \in FixedKinds
    /\ call' = [op |-> "MagSq", lhs |-> self]
    /\ ret'  = [tag |-> "double", v |-> VecN_MagSq(self), sqrt |-> VecN_Mag(self)]
    /\ UNCHANGED <<self, steps>>

\* self.Normalize() (a const member)
VecNNormalize ==
    /\ Fresh
    /\ self.kind \in FixedKinds
    /\ call' = [op |-> "Normalize", lhs |-> self]
    /\ ret'  = VecN_Normalize(self)
    /\ UNCHANGED <<self, steps>>

\* self.Normalize() on the generic vector
VecNormalize ==
    /\ Fresh
    /\ self.kind = "Vec"
    /\ call' = [op |-> "Normalize", lhs |-> self]
    /\ ret'  = Vec_Normalize(self)
    /\ UNCHANGED <<self, steps>>

(***************************************************************************)
(* Specification of the expressions over vectors: the receiver is any      *)
(* sample vector, every step evaluates one expression on it.               *)
(***************************************************************************)
Init ==
    /\ self \in AllGenericVecs \cup AllFixedVecs
    /\ call = NoCall
    /\ ret = NoRet
    /\ steps = 0

Next ==
    \/ VecAddVec
    \/ VecScalar
    \/ VecNegate
    \/ VecNVec
    \/ VecNScalar
    \/ VecNNegate
    \/ VecNCompare
    \/ VecNMagSq
    \/ VecNNormalize
    \/ VecNormalize
    \/ VecConvert
    \/ VecNConvert

Spec == Init /\ [][Next]_vars

(***************************************************************************)
(* Specification of chains of + and - : the receiver is a Vec2, Vec3 or    *)
(* Vec4 of an integer type; a binary operator applies to the value of the  *)
(* previous expression (the object itself at first, which is also what     *)
(* += and -= return), a compound assignment applies to the object.         *)
(***************************************************************************)
IsVector(r) == "elems" \in DOMAIN r

ChainElems(t, n) ==
    CASE t = "int"   -> IF n = 3 THEN {I(0 - 1), I(MaxOf("int"))}
                        ELSE IF n = 2 THEN {I(MinOf("int")), I(0 - 1), I(1), I(MaxOf("int"))}
                        ELSE {I(MinOf("int")), I(2)}
      [] t = "uint8" -> {I(0), I(MaxOf("uint8"))}

ChainTypes == {"int", "uint8"}

ChainVecs == UNION {{MkVec(KindOfSize(n), t, es) : es \in Seqs(ChainElems(t, n), n)} :
                       n \in 2..4, t \in ChainTypes}

\* the operands: the vector of the largest values and the vector of ones
ChainArgs(v) ==
    {MkVec(v.kind, v.type, [i \in 1..Size(v) |-> I(MaxOf(v.type))]),
     MkVec(v.kind, v.type, [i \in 1..Size(v) |-> I(1)])}

InitChain ==
    /\ self \in ChainVecs
    /\ call = NoCall
    /\ ret = NoRet
    /\ steps = 0

Current == IF IsVector(ret) THEN ret ELSE self

\* Current + b  and  Current - b
BinaryPlusMinus ==
    /\ steps < MaxSteps
    /\ \E opr \in {"+", "-"}, b \in ChainArgs(self) :
         /\ call' = [op |-> opr, lhs |-> Current, arg |-> b, prev |-> call]
         /\ ret'  = VecN_VecOp(opr, Current, b)
    /\ steps' = steps + 1
    /\ UNCHANGED self

\* self += b  and  self -= b  (returning *this)
CompoundPlusMinus ==
    /\ steps < MaxSteps
    /\ \E opr \in {"+", "-"}, b \in ChainArgs(self) :
         /\ call' = [op |-> opr \o "=", before |-> self, arg |-> b, prev |-> call]
         /\ self' = VecN_AssignOp(opr, self, b)
         /\ ret'  = VecN_AssignOp(opr, self, b)
    /\ steps' = steps + 1

NextChain ==
    \/ BinaryPlusMinus
    \/ CompoundPlusMinus

SpecChain == InitChain /\ [][NextChain]_vars

(***************************************************************************)
(* Specification of indexed access: reads  self[i]  and writes             *)
(* self[i] = val  on a Vec2, Vec3 or Vec4.                                 *)
(***************************************************************************)
IndexTypes == {"int", "uint8", "double"}

IndexElems(t) == CASE t = "int"    -> {I(0 - 1), I(MaxOf("int"))}
                   [] t = "uint8"  -> {I(1), I(MaxOf("uint8"))}
                   [] t = "double" -> {Rat(3, 2), I(0 - 2)}

\* the components of a sample vector are pairwise different where the
\* sample values allow it, so that a read names its component
IndexVecs == UNION {{MkVec(KindOfSize(n), t, es) : es \in Seqs(IndexElems(t), n)} :
                       n \in 2..3, t \in IndexTypes}
             \cup {MkVec("Vec4", "int", <<I(1), I(2), I(3), I(4)>>),
                   MkVec("Vec4", "uint8", <<I(0), I(1), I(2), I(3)>>),
                   MkVec("Vec4", "double", <<I(1), Rat(3, 2), I(2), Rat(5, 2)>>)}

Indices == 0..(MaxLen + 1)

WriteValue(t) == IF t = "double" THEN Rat(7, 2) ELSE I(0)

InitIndex ==
    /\ self \in IndexVecs
    /\ call = NoCall
    /\ ret = NoRet
    /\ steps = 0

\* T e = self[i]
IndexRead ==
    /\ steps < MaxSteps
    /\ \E i \in Indices :
         LET r == VecN_Index(self, i)
         IN  /\ call' = [op |-> "[]", i |-> i, before |-> self]
             /\ ret'  = IF r.tag = "ref"
                        THEN [tag |-> "value", v |-> self.elems[r.pos]]
                        ELSE r
    /\ steps' = steps + 1
    /\ UNCHANGED self

\* self[i] = val
IndexWrite ==
    /\ steps < MaxSteps
    /\ \E i \in Indices :
         LET r   == VecN_Index(self, i)
             val == WriteValue(self.type)
         IN  /\ call' = [op |-> "[]=", i |-> i, val |-> val, before |-> self]
             /\ ret'  = r
             /\ self' = IF r.tag = "ref"
                        THEN [self EXCEPT !.elems[r.pos] = val]
                        ELSE self
    /\ steps' = steps + 1

NextIndex ==
    \/ IndexRead
    \/ IndexWrite

SpecIndex == InitIndex /\ [][NextIndex]_vars

(***************************************************************************)
(* Segment2 and the free functions.  A segment object is                   *)
(* [kind |-> "Segment2", type, a, b], a and b being Vec2 of that type.     *)
(***************************************************************************)
\* T Sqr(T a) { return a * a; }
Sqr(T, a) == ArithTo(T, "*", T, a, T, a)

\* double Avg(T a, T b) { return (a + b) / 2; }
Avg(T, a, b) ==
    LET pt == CommonType(T, T)
    IN  Cast(pt, "double", Arith("/", pt, Arith("+", T, a, T, b), "int", I(2)))

\* Vec2D Avg(const Vec2<T>& v1, const Vec2<T>& v2) { return (v1 + v2) * 0.5; }
AvgVec(v1, v2) == VecN_ScalarOp("*", VecN_VecOp("+", v1, v2), "double", Rat(1, 2))

\* double DistanceSq(p1, p2) { return Sqr(p2.x - p1.x) + Sqr(p2.y - p1.y); }
DistanceSq(p1, p2) ==
    LET T  == p1.type
        pt == CommonType(T, T)
    IN  Cast(pt, "double",
             Arith("+", pt, Sqr(pt, Arith("-", T, X(p2), T, X(p1))),
                        pt, Sqr(pt, Arith("-", T, Y(p2), T, Y(p1)))))

\* double Distance(p1, p2) { return std::sqrt(DistanceSq(p1, p2)); }
Distance(p1, p2) == Sqrt(DistanceSq(p1, p2))

\* x / m in double for a double x >= 0 and a square root m that may be zero
Quotient(x, m) ==
    IF m = NaN THEN NaN
    ELSE IF m.radicand.n = 0 THEN (IF x.n = 0 THEN NaN ELSE [inf |-> TRUE])
    ELSE DivSqrt(x, m)

\* double Distance(const Segment2<T>& s, const Vec2<T>& p)
DistanceToSegment(s, p) ==
    LET T  == s.type
        pt == CommonType(T, T)
        a  == Cast(pt, "double", Arith("-", T, Y(s.a), T, Y(s.b)))
        b  == Cast(pt, "double", Arith("-", T, X(s.b), T, X(s.a)))
        c  == Cast(pt, "double",
                   Arith("-", pt, Arith("*", T, X(s.a), T, Y(s.b)),
                              pt, Arith("*", T, X(s.b), T, Y(s.a))))
        ap == Arith("*", "double", a, T, X(p))
        bp == Arith("*", "double", b, T, Y(p))
    IN  Quotient(RAbs(RAdd(RAdd(ap, bp), c)),
                 Sqrt(RAdd(Sqr("double", a), Sqr("double", b))))

Segment2_Len(s)     == Distance(s.a, s.b)
Segment2_LenSq(s)   == DistanceSq(s.a, s.b)
Segment2_CenterA(s) == Avg(s.type, X(s.a), Y(s.a))
Segment2_CenterB(s) == Avg(s.type, X(s.b), Y(s.b))
Segment2_Center(s)  == AvgVec(s.a, s.b)
Segment2_Delta(s)   == Vec2_Convert(VecN_VecOp("-", s.b, s.a), "double")
Segment2_DeltaX(s)  ==
    Cast(CommonType(s.type, s.type), "double", Arith("-", s.type, X(s.b), s.type, X(s.a)))
Segment2_DeltaY(s)  ==
    Cast(CommonType(s.type, s.type), "double", Arith("-", s.type, Y(s.b), s.type, Y(s.a)))

SegTypes == {"int", "double"}

SegCoords(t) == IF t = "int" THEN {I(0 - 1), I(0), I(2), I(4), I(10), I(Root)}
                             ELSE {I(0), Rat(1, 2), I(4)}

PointCoords(t) == IF t = "int" THEN {I(0), I(5), I(Root)} ELSE {I(0), Rat(5, 2)}

Points(t, S) == {MkVec("Vec2", t, es) : es \in Seqs(S, 2)}

Segments == UNION {{[kind |-> "Segment2", type |-> t, a |-> a, b |-> b] :
                       a \in Points(t, SegCoords(t)), b \in Points(t, SegCoords(t))} :
                   t \in SegTypes}

InitSeg ==
    /\ self \in Segments
    /\ call = NoCall
    /\ ret = NoRet
    /\ steps = 0

Scalar(x) == [tag |-> "double", v |-> x]

SegLen ==
    /\ Fresh
    /\ call' = [op |-> "Len", lhs |-> self]
    /\ ret'  = Scalar(Segment2_Len(self))
    /\ UNCHANGED <<self, steps>>

SegLenSq ==
    /\ Fresh
    /\ call' = [op |-> "LenSq", lhs |-> self]
    /\ ret'  = Scalar(Segment2_LenSq(self))
    /\ UNCHANGED <<self, steps>>

SegCenterA ==
    /\ Fresh
    /\ call' = [op |-> "CenterA", lhs |-> self]
    /\ ret'  = Scalar(Segment2_CenterA(self))
    /\ UNCHANGED <<self, steps>>

SegCenterB ==
    /\ Fresh
    /\ call' = [op |-> "CenterB", lhs |-> self]
    /\ ret'  = Scalar(Segment2_CenterB(self))
    /\ UNCHANGED <<self, steps>>

SegCenter ==
    /\ Fresh
    /\ call' = [op |-> "Center", lhs |-> self]
    /\ ret'  = Segment2_Center(self)
    /\ UNCHANGED <<self, steps>>

SegDelta ==
    /\ Fresh
    /\ call' = [op |-> "Delta", lhs |-> self]
    /\ ret'  = Segment2_Delta(self)
    /\ UNCHANGED <<self, steps>>

SegDeltaXY ==
    /\ Fresh
    /\ \/ /\ call' = [op |-> "DeltaX", lhs |-> self]
          /\ ret'  = Scalar(Segment2_DeltaX(self))
       \/ /\ call' = [op |-> "DeltaY", lhs |-> self]
          /\ ret'  = Scalar(Segment2_DeltaY(self))
    /\ UNCHANGED <<self, steps>>

\* Distance(self, p)
SegDistance ==
    /\ Fresh
    /\ \E p \in Points(self.type, PointCoords(self.type)) :
         /\ call' = [op |-> "Distance", lhs |-> self, p |-> p]
         /\ ret'  = Scalar(DistanceToSegment(self, p))
    /\ UNCHANGED <<self, steps>>

NextSeg ==
    \/ SegLen
    \/ SegLenSq
    \/ SegCenterA
    \/ SegCenterB
    \/ SegCenter
    \/ SegDelta
    \/ SegDeltaXY
    \/ SegDistance

SpecSeg == InitSeg /\ [][NextSeg]_vars

(***************************************************************************)
(* The small matrix.  Math.h declares Matrix2<T, row, col> and Array2      *)
(* (l.58-61) and keeps only a commented-out, empty operator* (l.630-649);  *)
(* the matrix, its factories and its product with a vector are taken from  *)
(* the specification (3 Data model, 4.1 Promotion Rule, 4.4 Small Matrix). *)
(* A matrix is [type, rows, cols, elems], elems the sequence of its rows.  *)
(***************************************************************************)
\* sizeof of the element types
SizeOf(t) == CASE t = "uint8" -> 1 [] t = "int" -> 4 [] t = "float" -> 4
               [] t = "int64" -> 8 [] t = "double" -> 8

\* the result element type the Promotion Rule selects for T and C
PromotionRule(T, C) ==
    IF T = C THEN T
    ELSE IF IsFloating(T) /\ ~IsFloating(C) THEN T
    ELSE IF IsFloating(C) /\ ~IsFloating(T) THEN C
    ELSE IF SizeOf(C) > SizeOf(T) THEN C
    ELSE T

MkMat(t, r, c, es) == [type |-> t, rows |-> r, cols |-> c, elems |-> es]

\* the zero-filled default matrix
Matrix2_Zero(T, r, c) == MkMat(T, r, c, [i \in 1..r |-> [j \in 1..c |-> I(0)]])

\* uniform scale: the diagonal holds the factor (a value of T)
Matrix2_Scale(T, n, factor) ==
    MkMat(T, n, n, [i \in 1..n |-> [j \in 1..n |-> IF i = j THEN factor ELSE I(0)]])

\* identity: scale by the multiplicative identity
Matrix2_Identity(T, n) == Matrix2_Scale(T, n, Cast("int", T, I(1)))

\* the 2x2 vertical flip
Matrix2_FlipVertical(T) ==
    MkMat(T, 2, 2, <<(<<Cast("int", T, I(1)), I(0)>>),
                     (<<I(0), Cast("int", T, I(0 - 1))>>)>>)

\* the dot product of a matrix row (elements of type M) with the elements of
\* a vector (of type T), the first k terms, accumulated in the type R
RECURSIVE RowDot(_, _, _, _, _, _)
RowDot(R, M, row, T, es, k) ==
    IF k = 0 THEN I(0)
    ELSE ArithTo(R, "+", R, RowDot(R, M, row, T, es, k - 1),
                 R, ArithTo(R, "*", R, Cast(M, R, row[k]), R, Cast(T, R, es[k])))

\* a product that keeps the matrix's element type for the result instead of
\* the promoted one
Matrix2_MulVecInMatrixType(m, v) ==
    IF m.cols # Size(v) \/ m.rows # Size(v)
    THEN [tag |-> "rejected"]
    ELSE MkVec(v.kind, m.type,
               [i \in 1..m.rows |->
                  RowDot(m.type, m.type, m.elems[i], v.type, v.elems, m.cols)])

\* matrix * vector: element i is the dot product of row i with the vector, in
\* the element type the Promotion Rule selects; a shape that does not fit is
\* rejected
Matrix2_MulVec(m, v) ==
    IF m.cols # Size(v) \/ m.rows # Size(v)
    THEN [tag |-> "rejected"]
    ELSE LET R == PromotionRule(m.type, v.type)
         IN  MkVec(v.kind, R,
                   [i \in 1..m.rows |->
                      RowDot(R, m.type, m.elems[i], v.type, v.elems, m.cols)])

MatTypes == {"uint8", "int", "int64", "float", "double"}

\* the factor of the sample scale matrices
ScaleFactor(T) == IF IsFloating(T) THEN Rat(1, 2) ELSE I(3)

Matrices ==
    UNION {{Matrix2_Identity(T, 2), Matrix2_Identity(T, 3),
            Matrix2_Scale(T, 2, ScaleFactor(T)), Matrix2_FlipVertical(T),
            Matrix2_Zero(T, 2, 3)} : T \in MatTypes}

MatVecs == VecsOfKind("Vec2") \cup VecsOfKind("Vec3")

InitMat ==
    /\ self \in Matrices
    /\ call = NoCall
    /\ ret = NoRet
    /\ steps = 0

\* self * v, v a Vec2 or Vec3 of any element type
MatMulVec ==
    /\ Fresh
    /\ \E v \in MatVecs :
         /\ call' = [op |-> "Mat*Vec", lhs |-> self, rhs |-> v]
         /\ ret'  = Matrix2_MulVec(self, v)
    /\ UNCHANGED <<self, steps>>

NextMat == MatMulVec

SpecMat == InitMat /\ [][NextMat]_vars

(***************************************************************************)
(* C1                                                                      *)
(***************************************************************************)
IsMixedAdd ==
    /\ call.op = "Vec+Vec"
    /\ call.lhs.type = call.rhs.type
    /\ Size(call.lhs) # Size(call.rhs)

\* C1: a mixed-length add of two generic vectors of the same element type has
\* the length of the longer operand; below the shorter operand's length every
\* element is longer[i] + shorter[i] (the addition of the element type),
\* from there on it is longer[i] unchanged; this in either operand order.
C1_MixedLengthAdd ==
    IsMixedAdd =>
        LET T       == call.lhs.type
            lhsLong == Size(call.lhs) > Size(call.rhs)
            longer  == IF lhsLong THEN call.lhs.elems ELSE call.rhs.elems
            shorter == IF lhsLong THEN call.rhs.elems ELSE call.lhs.elems
        IN  /\ ret.kind = "Vec"
            /\ Len(ret.elems) = Len(longer)
            /\ \A i \in 1..Len(longer) :
                 ret.elems[i] = IF i <= Len(shorter)
                                THEN ArithTo(T, "+", T, longer[i], T, shorter[i])
                                ELSE longer[i]

C1_Witness ==
    /\ IsMixedAdd
    /\ call.lhs.elems = <<I(1), I(2)>>
    /\ call.rhs.elems = <<I(10), I(20), I(30), I(40)>>
    /\ ret.elems = <<I(11), I(22), I(30), I(40)>>

(***************************************************************************)
(* C2                                                                      *)
(***************************************************************************)
IsBinaryArith == call.op \in {"Vec+Vec", "Vec.scalar", "VecN.vec", "VecN.scalar"}

\* C2: the result element type of every binary arithmetic operation between
\* a vector of T and a vector or scalar of C is the type the Promotion Rule
\* selects (floating point over integer, else the wider), whichever operand
\* is on the left.
C2_PromotedResultType ==
    IsBinaryArith => ret.type = PromotionRule(call.lhs.type, call.rhs.type)

(***************************************************************************)
(* C4                                                                      *)
(***************************************************************************)
\* the exact sum of the squares of the elements
RECURSIVE TrueSumSq(_, _)
TrueSumSq(es, k) == IF k = 0 THEN I(0) ELSE RAdd(TrueSumSq(es, k - 1), RMul(es[k], es[k]))

TrueMagSq(v) == TrueSumSq(v.elems, Size(v))

\* C4: Normalize on a vector of any length: a vector of magnitude zero gives
\* the double vector with the same (all zero) elements and no NaN; any other
\* vector gives every element divided by the magnitude; the vector itself is
\* not modified.
C4_Normalize ==
    call.op = "Normalize" =>
        /\ self = call.lhs
        /\ IsVector(ret)
        /\ ret.type = "double"
        /\ Size(ret) = Size(call.lhs)
        /\ \A i \in 1..Size(call.lhs) :
             ret.elems[i] = IF TrueMagSq(call.lhs).n = 0
                            THEN I(0)
                            ELSE DivSqrt(call.lhs.elems[i], Sqrt(TrueMagSq(call.lhs)))

(***************************************************************************)
(* C6                                                                      *)
(***************************************************************************)
MinusOne == I(0 - 1)

\* C6: for every element type, every element of -v has the numeric value of
\* the corresponding element of v * (-1), the scalar -1 being an int.
C6_NegationIsTimesMinusOne ==
    /\ call.op = "-VecN" =>
         ret.elems = VecN_ScalarOp("*", call.lhs, "int", MinusOne).elems
    /\ call.op = "-Vec" =>
         ret.elems = Vec_ScalarOp("*", call.lhs, "int", MinusOne).elems

(***************************************************************************)
(* C7                                                                      *)
(***************************************************************************)
\* C7: <, <=, >, >= of two vectors of the same type compare MagSq() of the
\* operands, == and != compare the elements.
C7_OrderingByMagSq ==
    call.op = "VecN.cmp" =>
        LET a  == call.lhs
            b  == call.rhs
            ma == VecN_MagSq(a)
            mb == VecN_MagSq(b)
        IN  /\ call.opr = "<"  => (ret.v <=> RLess(ma, mb))
            /\ call.opr = "<=" => (ret.v <=> (RLess(ma, mb) \/ ma = mb))
            /\ call.opr = ">"  => (ret.v <=> RLess(mb, ma))
            /\ call.opr = ">=" => (ret.v <=> (RLess(mb, ma) \/ ma = mb))
            /\ call.opr = "==" => (ret.v <=> a.elems = b.elems)
            /\ call.opr = "!=" => (ret.v <=> a.elems # b.elems)

\* (1,0) <= (0,1) holds, (1,0) >= (0,1) holds too, and the two are not equal
C7_Witness ==
    /\ call.op = "VecN.cmp"
    /\ call.opr = "<="
    /\ call.lhs = MkVec("Vec2", "int", <<I(1), I(0)>>)
    /\ call.rhs = MkVec("Vec2", "int", <<I(0), I(1)>>)
    /\ ret.v
    /\ VecN_Ge(call.lhs, call.rhs)
    /\ ~VecN_Eq(call.lhs, call.rhs)

(***************************************************************************)
(* C3                                                                      *)
(***************************************************************************)
IsIndexCall == call.op \in {"[]", "[]="}

\* C3: operator[] of a Vec2, Vec3, Vec4 of length L gives, for i < L, the
\* i-th component (x, y, z, w in that order) for reading and for writing;
\* for i >= L it signals out-of-range and leaves every component unchanged.
C3_IndexedAccess ==
    IsIndexCall =>
        LET v == call.before
            L == CASE v.kind = "Vec2" -> 2 [] v.kind = "Vec3" -> 3 [] v.kind = "Vec4" -> 4
        IN  IF call.i < L
            THEN /\ call.op = "[]"  => /\ ret = [tag |-> "value", v |-> v.elems[call.i + 1]]
                                       /\ self = v
                 /\ call.op = "[]=" => /\ ret.tag = "ref"
                                       /\ self.elems[call.i + 1] = call.val
                                       /\ \A j \in 1..L :
                                            j # call.i + 1 => self.elems[j] = v.elems[j]
            ELSE /\ ret = [tag |-> "out_of_range"]
                 /\ self = v

\* a Vec2 indexed at 2 fails after a successful write at index 1
C3_Witness ==
    /\ IsIndexCall
    /\ call.before.kind = "Vec2"
    /\ call.i = 2
    /\ ret.tag = "out_of_range"
    /\ steps = 2
    /\ self.elems[2] = WriteValue(self.type)

(***************************************************************************)
(* C5                                                                      *)
(***************************************************************************)
\* C5: for vectors a, b of the same length and the same integer element
\* type, (a + b) - b = a element-wise, and after a += b; a -= b the vector a
\* has its elements of before, also where the intermediate sum wraps.
C5_AddThenSubtract ==
    /\ (call.op = "-" /\ call.prev.op = "+" /\ call.arg = call.prev.arg)
          => ret.elems = call.prev.lhs.elems
    /\ (call.op = "-=" /\ call.prev.op = "+=" /\ call.arg = call.prev.arg)
          => self.elems = call.prev.before.elems

\* MaxInt + MaxInt wraps, and a -= b restores a
C5_Witness ==
    /\ call.op = "-="
    /\ call.prev.op = "+="
    /\ call.arg = call.prev.arg
    /\ call.arg.type = "int"
    /\ call.prev.before.elems[1] = I(MaxOf("int"))
    /\ call.arg.elems[1] = I(MaxOf("int"))
    /\ call.before.elems[1] = I(0 - 2)
    /\ self.elems[1] = I(MaxOf("int"))

(***************************************************************************)
(* C8                                                                      *)
(***************************************************************************)
Half(q) == RMul(q, Rat(1, 2))

ExactDX(s) == RSub(X(s.b), X(s.a))
ExactDY(s) == RSub(Y(s.b), Y(s.a))
ExactLenSq(s) == RAdd(RMul(ExactDX(s), ExactDX(s)), RMul(ExactDY(s), ExactDY(s)))

Origin4 == [kind |-> "Segment2", type |-> "int",
            a |-> MkVec("Vec2", "int", <<I(0), I(0)>>),
            b |-> MkVec("Vec2", "int", <<I(4), I(0)>>)]

\* C8: for every segment, Delta() = (b.x - a.x, b.y - a.y) with DeltaX(),
\* DeltaY() its components, LenSq() = (b.x - a.x)^2 + (b.y - a.y)^2 with
\* Len() its square root, Center() the exact midpoint; no query changes the
\* endpoints; for a = (0,0), b = (4,0): length 4, center (2,0), delta (4,0).
C8_SegmentQueries ==
    LET s == call.lhs
    IN  /\ call.op \in {"Len", "LenSq", "Center", "Delta", "DeltaX", "DeltaY"} => self = s
        /\ call.op = "Delta"  => ret.elems = <<ExactDX(s), ExactDY(s)>>
        /\ call.op = "DeltaX" => ret.v = ExactDX(s)
        /\ call.op = "DeltaY" => ret.v = ExactDY(s)
        /\ call.op = "LenSq"  => ret.v = ExactLenSq(s)
        /\ call.op = "Len"    => ret.v = Sqrt(ExactLenSq(s))
        /\ call.op = "Center" => ret.elems = <<Half(RAdd(X(s.a), X(s.b))),
                                               Half(RAdd(Y(s.a), Y(s.b)))>>
        /\ (call.op = "Len" /\ s = Origin4)    => ret.v = Sqrt(I(16))
        /\ (call.op = "Center" /\ s = Origin4) => ret.elems = <<I(2), I(0)>>
        /\ (call.op = "Delta" /\ s = Origin4)  => ret.elems = <<I(4), I(0)>>

(***************************************************************************)
(* C9                                                                      *)
(***************************************************************************)
LineA(s) == RSub(Y(s.a), Y(s.b))
LineB(s) == RSub(X(s.b), X(s.a))
LineC(s) == RSub(RMul(X(s.a), Y(s.b)), RMul(X(s.b), Y(s.a)))
LineN(s, p) == RAdd(RAdd(RMul(LineA(s), X(p)), RMul(LineB(s), Y(p))), LineC(s))
LineD(s) == RAdd(RMul(LineA(s), LineA(s)), RMul(LineB(s), LineB(s)))

\* d >= 0 and d^2 * den = num^2 for the double d
IsRootRatio(d, num, den) ==
    /\ d # NaN
    /\ "inf" \notin DOMAIN d
    /\ IF "radicand" \in DOMAIN d
       THEN /\ d.num.n >= 0
            /\ RMul(RMul(d.num, d.num), den) = RMul(RMul(num, num), d.radicand)
       ELSE /\ d.n >= 0
            /\ RMul(RMul(d, d), den) = RMul(num, num)

\* C9: Distance(segment, point) is the distance d to the infinite line
\* through a and b: d >= 0 and d^2 * (A^2 + B^2) = (A*p.x + B*p.y + C)^2 for
\* every segment with a # b and every point.
C9_DistanceToLine ==
    (call.op = "Distance" /\ call.lhs.a # call.lhs.b) =>
        IsRootRatio(ret.v, LineN(call.lhs, call.p), LineD(call.lhs))

(***************************************************************************)
(* C10                                                                     *)
(***************************************************************************)
\* C10: one per-axis center is the average of a.x and b.x, the other the
\* average of a.y and b.y: the two components of Center().
C10_PerAxisCenters ==
    LET s == call.lhs
    IN  /\ call.op = "CenterA" => ret.v = Half(RAdd(X(s.a), X(s.b)))
        /\ call.op = "CenterB" => ret.v = Half(RAdd(Y(s.a), Y(s.b)))

(***************************************************************************)
(* C11                                                                     *)
(***************************************************************************)
IsIdentityTimesVec2 ==
    /\ call.op = "Mat*Vec"
    /\ call.lhs = Matrix2_Identity(call.lhs.type, 2)
    /\ Size(call.rhs) = 2

TruncatingConversion(NT, x) ==
    IF IsFloating(NT)
    THEN x
    ELSE LET k == IF x.n >= 0 THEN x.n \div x.d ELSE 0 - ((0 - x.n) \div x.d)
             w == Pow2(Bits(NT))
             m == k % w
         IN  I(IF IsSigned(NT) /\ m >= w \div 2 THEN m - w ELSE m)

\* C12: converting a Vec, Vec2, Vec3 or Vec4 to another element type yields
\* a vector of the same kind and length whose element at every index is the
\* truncating conversion of the source element at that index (z of a Vec3,
\* z and w of a Vec4 included), and the source vector is unchanged.
C12_ConversionKeepsEveryElement ==
    call.op = "convert" =>
        /\ IsVector(ret)
        /\ ret.kind = call.lhs.kind
        /\ ret.type = call.to
        /\ Size(ret) = Size(call.lhs)
        /\ \A i \in 1..Size(call.lhs) :
              ret.elems[i] = TruncatingConversion(call.to, call.lhs.elems[i])
        /\ self = call.lhs

\* the statement of C12 for the generic Vec and for Vec2 only
C12_VecAndVec2 ==
    (call.op = "convert" /\ call.lhs.kind \in {"Vec", "Vec2"})
        => C12_ConversionKeepsEveryElement

(***************************************************************************)
(* C13                                                                     *)
(***************************************************************************)
IsIntegerVecN(v) == v.kind \in FixedKinds /\ ~IsFloating(v.type)

\* the vector as Normalize returns it when it does not divide
Unscaled(v) ==
    MkVec(v.kind, "double", [i \in 1..Size(v) |-> I(v.elems[i].n)])

AllZero(v) == \A i \in 1..Size(v) : v.elems[i].n = 0

\* C13: for a Vec2, Vec3 or Vec4 of an integer element type, MagSq() is the
\* exact sum of the squares of the elements for every representable element
\* value; hence MagSq() is zero only for the all-zero vector, Normalize()
\* returns the vector unscaled only when every element is zero, and a < b
\* agrees with the true squared magnitudes.
C13_MagSqIsExact ==
    /\ (call.op = "MagSq" /\ IsIntegerVecN(call.lhs)) =>
          /\ ret.v = TrueMagSq(call.lhs)
          /\ (ret.v.n = 0 => AllZero(call.lhs))
    /\ (call.op = "Normalize" /\ IsIntegerVecN(call.lhs)) =>
          (ret = Unscaled(call.lhs) => AllZero(call.lhs))
    /\ (call.op = "VecN.cmp" /\ call.opr = "<" /\ IsIntegerVecN(call.lhs)) =>
          (ret.v <=> RLess(TrueMagSq(call.lhs), TrueMagSq(call.rhs)))

====
